---- MODULE Spec2Model ----
(***************************************************************************)
(* Telegram -> Discord announcement relay.                                 *)
(*                                                                         *)
(* The repository holds two iterations of the same program:                *)
(*   src/index.js          (build "index")                                 *)
(*   src/unnamed/part_000  (build "part_000")                              *)
(* They share the channel_post handler, the album buffer, the debounce     *)
(* timer and sendToDiscord line for line; they differ in                   *)
(* passesChannelFilter and in transformContent.  The variable `build`      *)
(* says which of the two files is running.                                 *)
(*                                                                         *)
(* Texts are sequences of atoms.  An atom is a run of characters that the  *)
(* program's regular expressions never split: " " and "\n" are the white   *)
(* space atoms, "(arrow)" is the pointing-hand glyph, "(bullet)" the       *)
(* bullet glyph.  The empty sequence is the empty string; an absent        *)
(* (undefined) string is modelled by the empty string wherever the code    *)
(* treats the two alike (x || "", !x, x ?? "").                            *)
(***************************************************************************)
EXTENDS Integers, Sequences, FiniteSets, TLC

(***************************************************************************)
(* Bounds of the model.                                                    *)
(***************************************************************************)
\* Number of channel_post events that reach the handler.
MaxPosts == 2
\* Clock granularity: the debounce window is TicksPerWindow clock ticks.
TicksPerWindow == 2
\* Number of parts (words, markers, links, line breaks) of a text given to transformContent.
MaxParts == 3

(***************************************************************************)
(* Program constants.                                                      *)
(***************************************************************************)
\* setTimeout(..., 1500)
DEBOUNCE_MS == 1500
\* existing.items.slice(0, 10)
MAX_FILES == 10

TickMs == DEBOUNCE_MS \div TicksPerWindow

(***************************************************************************)
(* Text helpers.                                                           *)
(***************************************************************************)
\* /i : case-insensitive matching, on the atoms that occur in mixed case.
Lower(a) ==
    CASE a = "DM" -> "dm"
      [] a = "Dm" -> "dm"
      [] a = "SplitThePicks" -> "splitthepicks"
      [] a = "VEGASKILLER" -> "vegaskiller"
      [] a = "HTTPS://" -> "https://"
      [] OTHER -> a

\* \s
IsSpace(a) == a \in {" ", "\n"}

\* Whether the first (last) character of an atom is a word character (\w).
NonWordAtoms == {" ", "\n", "@", "(arrow)", "(bullet)", "**", "<@", ">", "!", "."}
FirstIsWord(a) == a \notin NonWordAtoms
LastIsWord(a) == a \notin (NonWordAtoms \cup {"https://", "http://", "HTTPS://", "t.me/", "telegram:"})

\* \b between position i and i+1 of t (i = 0: start, i = Len(t): end).
WordBoundary(t, i) ==
    LET before == IF i >= 1 THEN LastIsWord(t[i]) ELSE FALSE
        after == IF i < Len(t) THEN FirstIsWord(t[i + 1]) ELSE FALSE
    IN before # after

RECURSIVE DropWhileNonSpace(_)
DropWhileNonSpace(t) ==
    IF t = <<>> \/ IsSpace(Head(t)) THEN t ELSE DropWhileNonSpace(Tail(t))

RECURSIVE DropWhileSpace(_)
DropWhileSpace(t) ==
    IF t = <<>> \/ ~IsSpace(Head(t)) THEN t ELSE DropWhileSpace(Tail(t))

\* text.replace(/https?:\/\/@\S+/gi, "")
RECURSIVE StripMalformed(_)
StripMalformed(t) ==
    IF t = <<>> THEN <<>>
    ELSE IF /\ Len(t) >= 3
            /\ Lower(t[1]) \in {"https://", "http://"}
            /\ t[2] = "@"
            /\ ~IsSpace(t[3])
         THEN StripMalformed(DropWhileNonSpace(SubSeq(t, 3, Len(t))))
         ELSE <<Head(t)>> \o StripMalformed(Tail(t))

\* String.prototype.split("\n"): the lines of t, "\n" atoms removed.
RECURSIVE SplitLines(_)
SplitLines(t) ==
    IF \A i \in 1..Len(t) : t[i] # "\n" THEN <<t>>
    ELSE LET k == CHOOSE i \in 1..Len(t) : t[i] = "\n" /\ \A j \in 1..(i - 1) : t[j] # "\n"
         IN <<SubSeq(t, 1, k - 1)>> \o SplitLines(SubSeq(t, k + 1, Len(t)))

\* join("\n\n"): the lines are joined with a blank line between them.
RECURSIVE JoinLines_blankLine(_)
JoinLines_blankLine(ls) ==
    IF ls = <<>> THEN <<>>
    ELSE IF Len(ls) = 1 THEN ls[1]
    ELSE ls[1] \o <<"\n", "\n">> \o JoinLines_blankLine(Tail(ls))

\* Array.prototype.join("\n")
RECURSIVE JoinLines(_)
JoinLines(ls) ==
    IF ls = <<>> THEN <<>>
    ELSE IF Len(ls) = 1 THEN ls[1]
    ELSE ls[1] \o <<"\n">> \o JoinLines(Tail(ls))

RECURSIVE TrimRight(_)
TrimRight(t) ==
    IF t = <<>> \/ ~IsSpace(t[Len(t)]) THEN t ELSE TrimRight(SubSeq(t, 1, Len(t) - 1))

\* String.prototype.trim()
Trim(t) == TrimRight(DropWhileSpace(t))

\* x is truthy (a non-empty string)
Truthy(t) == t # <<>>

\* a || b on strings
OrElse(a, b) == IF Truthy(a) THEN a ELSE b

(***************************************************************************)
(* Content Transformer.                                                    *)
(***************************************************************************)
Builds == {"index", "part_000"}

\* TELEGRAM_CONTACT_URL, at its default "https://t.me/splitthepicks"
TELEGRAM_CONTACT_URL == <<"https://", "t.me/", "splitthepicks">>
\* DISCORD_CONTACT_USER_ID, at its default (part_000 only)
DISCORD_CONTACT_USER_ID == <<"1374514852701143091">>

\* `Message me on telegram:\n(arrow) ${TELEGRAM_CONTACT_URL}`
telegramFooter ==
    <<"Message", " ", "me", " ", "on", " ", "telegram:", "\n", "(arrow)", " ">>
        \o TELEGRAM_CONTACT_URL

\* `DM (arrow) <@${DISCORD_CONTACT_USER_ID}> (bullet) ${TELEGRAM_CONTACT_URL}`
footer ==
    <<"DM", " ", "(arrow)", " ", "<@">> \o DISCORD_CONTACT_USER_ID
        \o <<">", " ", "(bullet)", " ">> \o TELEGRAM_CONTACT_URL

\* text.replace(/@<handle>\b/gi, `${TELEGRAM_CONTACT_URL} `)
RECURSIVE ReplaceHandle(_, _)
ReplaceHandle(t, handle) ==
    IF t = <<>> THEN <<>>
    ELSE IF /\ Len(t) >= 2
            /\ t[1] = "@"
            /\ Lower(t[2]) = handle
            /\ WordBoundary(t, 2)
         THEN TELEGRAM_CONTACT_URL \o <<" ">> \o ReplaceHandle(SubSeq(t, 3, Len(t)), handle)
         ELSE <<Head(t)>> \o ReplaceHandle(Tail(t), handle)

\* text.replace(/DM\s*(arrow)\s*/gi, "DM(arrow) ")
RECURSIVE NormalizeDmArrow(_)
NormalizeDmArrow(t) ==
    IF t = <<>> THEN <<>>
    ELSE LET r == DropWhileSpace(Tail(t))
         IN IF Lower(t[1]) = "dm" /\ r # <<>> /\ Head(r) = "(arrow)"
            THEN <<"DM", "(arrow)", " ">> \o NormalizeDmArrow(DropWhileSpace(Tail(r)))
            ELSE <<Head(t)>> \o NormalizeDmArrow(Tail(t))

\* /https?:\/\/t\.me\/splitthepicks/i.test(text)
HasContactLink(t) ==
    \E i \in 1..(Len(t) - 2) :
        /\ Lower(t[i]) \in {"https://", "http://"}
        /\ Lower(t[i + 1]) = "t.me/"
        /\ Lower(t[i + 2]) = "splitthepicks"

\* lines[0] = `**${lines[0].trim()}**` when lines[0].trim() is not empty
BoldFirstLine(t) ==
    LET lines == SplitLines(t)
        first == IF Truthy(Trim(lines[1]))
                 THEN <<"**">> \o Trim(lines[1]) \o <<"**">>
                 ELSE lines[1]
    IN JoinLines(<<first>> \o Tail(lines))

\* transformContent of src/index.js
transformContent_index(raw) ==
    IF ~Truthy(raw) THEN raw
    ELSE LET t1 == StripMalformed(raw)
             t2 == ReplaceHandle(t1, "splitthepicks")
             t3 == ReplaceHandle(t2, "vegaskiller")
             t4 == NormalizeDmArrow(t3)
             t5 == BoldFirstLine(t4)
         IN IF ~HasContactLink(t5)
            THEN t5 \o <<"\n", "\n">> \o telegramFooter
            ELSE t5

\* The marker test without its \b: "splitthepicks" anywhere, inside a longer word too.
HasSTP_noBoundary(t) ==
    \E i \in 1..Len(t) : Lower(t[i]) = "splitthepicks"

\* /@splitthepicks\b|t\.me\/splitthepicks\b|https?:\/\/t\.me\/splitthepicks\b|\bsplitthepicks\b/i.test(text)
HasSTP(t) ==
    \E i \in 1..Len(t) :
        /\ Lower(t[i]) = "splitthepicks"
        /\ WordBoundary(t, i)
        /\ \/ (i >= 2 /\ t[i - 1] = "@")
           \/ (i >= 2 /\ Lower(t[i - 1]) = "t.me/")
           \/ WordBoundary(t, i - 1)

\* /^\s*DM\s*(arrow)/i.test(line) || /splitthepicks|t\.me\/splitthepicks/i.test(line)
IsCtaLine(line) ==
    \/ LET a == DropWhileSpace(line)
       IN /\ a # <<>>
          /\ Lower(Head(a)) = "dm"
          /\ LET b == DropWhileSpace(Tail(a)) IN b # <<>> /\ Head(b) = "(arrow)"
    \/ \E i \in 1..Len(line) : Lower(line[i]) = "splitthepicks"

\* The filter that drops nothing: every footer line is kept.
DedupFooter_keepsAll(ls, seenFooter) == ls

\* outLines.filter(...): every line equal to the footer after the first is dropped
RECURSIVE DedupFooter(_, _)
DedupFooter(ls, seenFooter) ==
    IF ls = <<>> THEN <<>>
    ELSE LET isFooter == Trim(Head(ls)) = Trim(footer)
         IN IF ~isFooter THEN <<Head(ls)>> \o DedupFooter(Tail(ls), seenFooter)
            ELSE IF seenFooter THEN DedupFooter(Tail(ls), TRUE)
            ELSE <<Head(ls)>> \o DedupFooter(Tail(ls), TRUE)

\* transformContent of src/unnamed/part_000
transformContent_part000(raw) ==
    LET text == StripMalformed(raw)
    IN IF ~HasSTP(text) THEN text
       ELSE LET lines == SplitLines(text)
                replaced == \E i \in 1..Len(lines) : IsCtaLine(lines[i])
                lines2 == [i \in 1..Len(lines) |->
                              IF IsCtaLine(lines[i]) THEN footer ELSE lines[i]]
                out0 == JoinLines(lines2)
                out1 == IF replaced THEN out0
                        ELSE (IF out0 # <<>> /\ out0[Len(out0)] = "\n"
                              THEN out0 ELSE out0 \o <<"\n">>)
                                 \o <<"\n">> \o footer
            IN JoinLines(DedupFooter(SplitLines(out1), FALSE))

transformContent(b, raw) ==
    IF b = "index" THEN transformContent_index(raw) ELSE transformContent_part000(raw)

\* msg?.caption || msg?.text || ""
normalizeCaption(msg) == OrElse(msg.caption, OrElse(msg.text, <<>>))

(***************************************************************************)
(* Channel Filter.                                                         *)
(* A chat is [present, id, username]: id is <<>> (undefined) or <<n>>,     *)
(* username is "" when the channel has none.  An environment variable      *)
(* that is unset is "".                                                    *)
(***************************************************************************)
Digit(d) ==
    CASE d = 0 -> "0" [] d = 1 -> "1" [] d = 2 -> "2" [] d = 3 -> "3" [] d = 4 -> "4"
      [] d = 5 -> "5" [] d = 6 -> "6" [] d = 7 -> "7" [] d = 8 -> "8" [] d = 9 -> "9"

RECURSIVE NatToString(_)
NatToString(n) ==
    IF n < 10 THEN Digit(n) ELSE NatToString(n \div 10) \o Digit(n % 10)

\* Number.prototype.toString()
toString(n) == IF n < 0 THEN "-" \o NatToString(-n) ELSE NatToString(n)

NoChat == [present |-> FALSE, id |-> <<>>, username |-> ""]

\* passesChannelFilter of src/index.js comparing the bare username, without its "@".
passesChannelFilter_index_bareName(e, chat) ==
    IF ~chat.present THEN FALSE
    ELSE LET channelUsername == IF chat.username # "" THEN <<chat.username>> ELSE <<>>
             channelId == IF chat.id # <<>> THEN <<toString(chat.id[1])>> ELSE <<>>
             allowedChannels ==
                 SelectSeq(<<e.TELEGRAM_CHANNEL_ID, e.TELEGRAM_CHANNEL_ID_TEST>>,
                           LAMBDA a : a # "")
         IN \E i \in 1..Len(allowedChannels) :
                \/ <<allowedChannels[i]>> = channelUsername
                \/ <<allowedChannels[i]>> = channelId

\* passesChannelFilter of src/index.js
passesChannelFilter_index(e, chat) ==
    IF ~chat.present THEN FALSE
    ELSE LET channelUsername == IF chat.username # "" THEN <<"@" \o chat.username>> ELSE <<>>
             channelId == IF chat.id # <<>> THEN <<toString(chat.id[1])>> ELSE <<>>
             allowedChannels ==
                 SelectSeq(<<e.TELEGRAM_CHANNEL_ID, e.TELEGRAM_CHANNEL_ID_TEST>>,
                           LAMBDA a : a # "")
         IN \E i \in 1..Len(allowedChannels) :
                \/ <<allowedChannels[i]>> = channelUsername
                \/ <<allowedChannels[i]>> = channelId

\* passesChannelFilter of src/unnamed/part_000
passesChannelFilter_part000(e, chat) ==
    IF e.TELEGRAM_CHANNEL_ID = "" THEN TRUE
    ELSE IF ~chat.present THEN FALSE
    ELSE LET asAt == IF chat.username # "" THEN <<"@" \o chat.username>> ELSE <<>>
             idStr == IF chat.id # <<>> THEN <<toString(chat.id[1])>> ELSE <<>>
         IN asAt = <<e.TELEGRAM_CHANNEL_ID>> \/ idStr = <<e.TELEGRAM_CHANNEL_ID>>

passesChannelFilter(b, e, chat) ==
    IF b = "index" THEN passesChannelFilter_index(e, chat)
    ELSE passesChannelFilter_part000(e, chat)

(***************************************************************************)
(* State.                                                                  *)
(***************************************************************************)
VARIABLES
    build,        \* which of the two source files runs
    env,          \* process.env: TELEGRAM_CHANNEL_ID, TELEGRAM_CHANNEL_ID_TEST
    filterRun,    \* the calls of passesChannelFilter made on their own: <<[chat, result]>>
    transformRun, \* the calls of transformContent made on their own: <<[raw, out, again]>>
    toCome,       \* the number of channel_post updates still to come in the run
    posts,        \* the channel_post updates delivered so far, message_id = index
    handlers,     \* per post, the position of its async handler
    albumBuffer,  \* the Map: album key -> buffer object (an object id)
    heap,         \* the live buffer objects: id -> [caption, items, timer]
    timers,       \* the pending timeouts: id -> [key, existing, remaining]
    deliveries,   \* the calls of sendToDiscord, in call order
    albumSendFailed, \* the deliveries whose error the timer callback caught and logged
    arrivals      \* per album key: ms since its last arrival, and whether every gap
                  \* between its arrivals so far was shorter than the debounce window

vars == <<build, env, filterRun, transformRun, toCome, posts, handlers, albumBuffer,
          heap, timers, deliveries, albumSendFailed, arrivals>>

pipelineVars == <<toCome, posts, handlers, albumBuffer, heap, timers, deliveries,
                  albumSendFailed, arrivals>>

\* The empty Map
Empty == [x \in {} |-> 0]

Min(a, b) == IF a <= b THEN a ELSE b
Max(a, b) == IF a >= b THEN a ELSE b

\* f without the key k
Without(f, k) == [x \in DOMAIN f \ {k} |-> f[x]]
\* f with k mapped to v
With(f, k, v) == [x \in DOMAIN f \cup {k} |-> IF x = k THEN v ELSE f[x]]

\* `${msg.chat.id}:${mediaGroupId}`
albumKey(msg) ==
    (IF msg.chat.id = <<>> THEN "undefined" ELSE toString(msg.chat.id[1]))
        \o ":" \o msg.media_group_id

\* The filename the handler chooses for the post's media.
filenameOf(msg) ==
    CASE msg.kind = "photo" -> "image-" \o toString(msg.message_id) \o ".jpg"
      [] msg.kind = "video" -> "video-" \o toString(msg.message_id) \o ".mp4"
      [] OTHER -> IF msg.file_name # "" THEN msg.file_name
                  ELSE "file-" \o toString(msg.message_id)

\* The URL getTelegramFileUrl returns for the post's file_id when Telegram knows a path.
fileUrlOf(msg) == "https://api.telegram.org/file/bot/" \o toString(msg.message_id)

\* (content || "").slice(0, 1900)
MAX_CONTENT == 1900
RECURSIVE CharLen(_)
CharLen(t) == IF t = <<>> THEN 0 ELSE Len(Head(t)) + CharLen(Tail(t))
RECURSIVE SliceContent(_)
SliceContent(t) ==
    IF CharLen(t) <= MAX_CONTENT THEN t ELSE SliceContent(SubSeq(t, 1, Len(t) - 1))

\* The buffer objects something still refers to: the Map or a pending timer's closure.
Reachable(h, ab, ts) ==
    [o \in (DOMAIN h) \cap ({ab[k] : k \in DOMAIN ab} \cup {ts[t].existing : t \in DOMAIN ts})
        |-> h[o]]

\* clearTimeout left out: the superseded timeout stays pending.
clearTimeout_omitted(ts, id) == ts

\* clearTimeout(id)
clearTimeout(ts, id) == Without(ts, id)

\* The synchronous start of sendToDiscord({content, files}): the form gets its payload,
\* and either the first media fetch or (no files) the webhook request is issued.
sendToDiscord(caller, owner, key, content, files) ==
    [caller |-> caller, owner |-> owner, key |-> key,
     content |-> content, files |-> files,
     payload |-> SliceContent(content),
     form |-> <<>>,
     i |-> IF files = <<>> THEN 0 ELSE 1,
     pc |-> IF files = <<>> THEN "post" ELSE "fetch",
     requests |-> IF files = <<>>
                  THEN <<[content |-> SliceContent(content), files |-> <<>>]>>
                  ELSE <<>>]

(***************************************************************************)
(* Inputs of the pipeline.                                                 *)
(***************************************************************************)
AllowedChat == [present |-> TRUE, id |-> <<-1001>>, username |-> "news"]
OtherChat == [present |-> TRUE, id |-> <<7>>, username |-> "other"]
PipelineEnv == [TELEGRAM_CHANNEL_ID |-> "@news", TELEGRAM_CHANNEL_ID_TEST |-> ""]

\* A channel_post without its message_id.  A media post carries its words in
\* caption, a text post in text.
Shape(chat, group, kind, fname, words) ==
    [chat |-> chat, media_group_id |-> group, kind |-> kind, file_name |-> fname,
     caption |-> IF kind = "text" THEN <<>> ELSE words,
     text |-> IF kind = "text" THEN words ELSE <<>>]

PostShapes ==
    { Shape(OtherChat, "", "photo", "", <<>>),
      Shape(AllowedChat, "", "text", "", <<"hi">>),
      Shape(AllowedChat, "", "document", "", <<>>),
      Shape(AllowedChat, "G1", "photo", "", <<>>),
      Shape(AllowedChat, "G1", "video", "", <<"hi">>),
      Shape(AllowedChat, "G2", "photo", "", <<>>) }

(***************************************************************************)
(* The channel_post handler.                                               *)
(***************************************************************************)
\* The handler's local `caption`
captionOf(msg) == transformContent(build, normalizeCaption(msg))

\* The settled handler of a delivery it awaits: it returns, or the error leaves it.
SettleHandler(hs, d, ok) ==
    [m \in DOMAIN hs |->
        IF hs[m].pc = "sendToDiscord" /\ hs[m].d = d
        THEN [pc |-> IF ok THEN "returned" ELSE "threw", d |-> d]
        ELSE hs[m]]

\* The stopwatches `since` time the gap to the next arrival: with the last post of
\* the run (left = 0 posts still to come) there is none, and they are stopped at 0.
StopAfterLast(left, arr) ==
    IF left > 0 THEN arr
    ELSE [k \in DOMAIN arr |-> [arr[k] EXCEPT !.since = 0]]

\* A channel_post update reaches the handler, which runs to its first await.
Arrive(shape) ==
    /\ toCome > 0
    /\ toCome' = toCome - 1
    /\ LET id == Len(posts) + 1
           msg == shape @@ [message_id |-> id]
           isAlbum == msg.kind # "text" /\ msg.media_group_id # ""
           key == albumKey(msg)
       IN /\ posts' = Append(posts, msg)
          /\ IF ~passesChannelFilter(build, env, msg.chat)
             THEN /\ handlers' = Append(handlers, [pc |-> "filtered", d |-> 0])
                  /\ arrivals' = StopAfterLast(toCome - 1, arrivals)
                  /\ UNCHANGED deliveries
             ELSE /\ IF msg.kind = "text"
                     THEN /\ deliveries' = Append(deliveries,
                                 sendToDiscord("handler", id, "",
                                     OrElse(captionOf(msg), <<"(no text)">>), <<>>))
                          /\ handlers' = Append(handlers,
                                 [pc |-> "sendToDiscord", d |-> Len(deliveries) + 1])
                     ELSE /\ handlers' = Append(handlers, [pc |-> "getTelegramFileUrl", d |-> 0])
                          /\ UNCHANGED deliveries
                  /\ arrivals' =
                        StopAfterLast(toCome - 1,
                            IF ~isAlbum THEN arrivals
                            ELSE With(arrivals, key,
                                      [since |-> 0,
                                       close |-> IF key \in DOMAIN arrivals
                                                 THEN /\ arrivals[key].close
                                                      /\ arrivals[key].since < DEBOUNCE_MS
                                                 ELSE TRUE]))
    /\ UNCHANGED <<build, env, filterRun, transformRun, albumBuffer, heap, timers,
                   albumSendFailed>>

\* The handler without its test `if (mediaGroupId)`: a single media post is buffered
\* like an album item, under the key of an undefined group.
ResolveOk_buffersAll(m) ==
    /\ m \in DOMAIN handlers
    /\ handlers[m].pc = "getTelegramFileUrl"
    /\ LET msg == posts[m]
           caption == captionOf(msg)
           item == [url |-> fileUrlOf(msg), filename |-> filenameOf(msg)]
           key == albumKey(msg)
           found == key \in DOMAIN albumBuffer
           obj == IF found THEN albumBuffer[key] ELSE m
           existing == IF found THEN heap[obj]
                       ELSE [caption |-> <<>>, items |-> <<>>, timer |-> 0]
           filled == IF ~Truthy(existing.caption) /\ Truthy(caption)
                     THEN caption ELSE existing.caption
           kept == IF existing.timer # 0 THEN clearTimeout(timers, existing.timer)
                   ELSE timers
           ts == With(kept, m, [key |-> key, existing |-> obj,
                                remaining |-> DEBOUNCE_MS])
           ab == With(albumBuffer, key, obj)
           hp == With(heap, obj, [caption |-> filled,
                                  items |-> Append(existing.items, item),
                                  timer |-> m])
       IN /\ timers' = ts
          /\ albumBuffer' = ab
          /\ heap' = Reachable(hp, ab, ts)
          /\ handlers' = [handlers EXCEPT ![m] = [pc |-> "returned", d |-> 0]]
          /\ UNCHANGED deliveries
    /\ UNCHANGED <<build, env, filterRun, transformRun, toCome, posts, albumSendFailed,
                   arrivals>>

\* The handler with `existing.items = [item]` for `existing.items.push(item)`: the
\* new item replaces the buffered ones.
ResolveOk_overwritesItems(m) ==
    /\ m \in DOMAIN handlers
    /\ handlers[m].pc = "getTelegramFileUrl"
    /\ LET msg == posts[m]
           caption == captionOf(msg)
           item == [url |-> fileUrlOf(msg), filename |-> filenameOf(msg)]
       IN IF msg.media_group_id # ""
          THEN LET key == albumKey(msg)
                   found == key \in DOMAIN albumBuffer
                   obj == IF found THEN albumBuffer[key] ELSE m
                   existing == IF found THEN heap[obj]
                               ELSE [caption |-> <<>>, items |-> <<>>, timer |-> 0]
                   filled == IF ~Truthy(existing.caption) /\ Truthy(caption)
                             THEN caption ELSE existing.caption
                   kept == IF existing.timer # 0 THEN clearTimeout(timers, existing.timer)
                           ELSE timers
                   ts == With(kept, m, [key |-> key, existing |-> obj,
                                        remaining |-> DEBOUNCE_MS])
                   ab == With(albumBuffer, key, obj)
                   hp == With(heap, obj, [caption |-> filled,
                                          items |-> <<item>>,
                                          timer |-> m])
               IN /\ timers' = ts
                  /\ albumBuffer' = ab
                  /\ heap' = Reachable(hp, ab, ts)
                  /\ handlers' = [handlers EXCEPT ![m] = [pc |-> "returned", d |-> 0]]
                  /\ UNCHANGED deliveries
          ELSE /\ deliveries' = Append(deliveries,
                      sendToDiscord("handler", m, "", OrElse(caption, <<>>), <<item>>))
               /\ handlers' = [handlers EXCEPT
                      ![m] = [pc |-> "sendToDiscord", d |-> Len(deliveries) + 1]]
               /\ UNCHANGED <<albumBuffer, heap, timers>>
    /\ UNCHANGED <<build, env, filterRun, transformRun, toCome, posts, albumSendFailed,
                   arrivals>>

\* The handler without `albumBuffer.set(key, existing)`: the buffer it created is
\* known to its timeout only.
ResolveOk_omitsSet(m) ==
    /\ m \in DOMAIN handlers
    /\ handlers[m].pc = "getTelegramFileUrl"
    /\ LET msg == posts[m]
           caption == captionOf(msg)
           item == [url |-> fileUrlOf(msg), filename |-> filenameOf(msg)]
       IN IF msg.media_group_id # ""
          THEN LET key == albumKey(msg)
                   found == key \in DOMAIN albumBuffer
                   obj == IF found THEN albumBuffer[key] ELSE m
                   existing == IF found THEN heap[obj]
                               ELSE [caption |-> <<>>, items |-> <<>>, timer |-> 0]
                   filled == IF ~Truthy(existing.caption) /\ Truthy(caption)
                             THEN caption ELSE existing.caption
                   kept == IF existing.timer # 0 THEN clearTimeout(timers, existing.timer)
                           ELSE timers
                   ts == With(kept, m, [key |-> key, existing |-> obj,
                                        remaining |-> DEBOUNCE_MS])
                   hp == With(heap, obj, [caption |-> filled,
                                          items |-> Append(existing.items, item),
                                          timer |-> m])
               IN /\ timers' = ts
                  /\ albumBuffer' = albumBuffer
                  /\ heap' = Reachable(hp, albumBuffer, ts)
                  /\ handlers' = [handlers EXCEPT ![m] = [pc |-> "returned", d |-> 0]]
                  /\ UNCHANGED deliveries
          ELSE /\ deliveries' = Append(deliveries,
                      sendToDiscord("handler", m, "", OrElse(caption, <<>>), <<item>>))
               /\ handlers' = [handlers EXCEPT
                      ![m] = [pc |-> "sendToDiscord", d |-> Len(deliveries) + 1]]
               /\ UNCHANGED <<albumBuffer, heap, timers>>
    /\ UNCHANGED <<build, env, filterRun, transformRun, toCome, posts, albumSendFailed,
                   arrivals>>

\* getTelegramFileUrl resolves; the handler runs on to its end or its next await.
ResolveOk(m) ==
    /\ m \in DOMAIN handlers
    /\ handlers[m].pc = "getTelegramFileUrl"
    /\ LET msg == posts[m]
           caption == captionOf(msg)
           item == [url |-> fileUrlOf(msg), filename |-> filenameOf(msg)]
       IN IF msg.media_group_id # ""
          THEN LET key == albumKey(msg)
                   found == key \in DOMAIN albumBuffer
                   obj == IF found THEN albumBuffer[key] ELSE m
                   existing == IF found THEN heap[obj]
                               ELSE [caption |-> <<>>, items |-> <<>>, timer |-> 0]
                   filled == IF ~Truthy(existing.caption) /\ Truthy(caption)
                             THEN caption ELSE existing.caption
                   kept == IF existing.timer # 0 THEN clearTimeout(timers, existing.timer)
                           ELSE timers
                   ts == With(kept, m, [key |-> key, existing |-> obj,
                                        remaining |-> DEBOUNCE_MS])
                   ab == With(albumBuffer, key, obj)
                   hp == With(heap, obj, [caption |-> filled,
                                          items |-> Append(existing.items, item),
                                          timer |-> m])
               IN /\ timers' = ts
                  /\ albumBuffer' = ab
                  /\ heap' = Reachable(hp, ab, ts)
                  /\ handlers' = [handlers EXCEPT ![m] = [pc |-> "returned", d |-> 0]]
                  /\ UNCHANGED deliveries
          ELSE /\ deliveries' = Append(deliveries,
                      sendToDiscord("handler", m, "", OrElse(caption, <<>>), <<item>>))
               /\ handlers' = [handlers EXCEPT
                      ![m] = [pc |-> "sendToDiscord", d |-> Len(deliveries) + 1]]
               /\ UNCHANGED <<albumBuffer, heap, timers>>
    /\ UNCHANGED <<build, env, filterRun, transformRun, toCome, posts, albumSendFailed,
                   arrivals>>

\* getTelegramFileUrl throws ("Could not resolve Telegram file path"); nothing catches it.
ResolveFail(m) ==
    /\ m \in DOMAIN handlers
    /\ handlers[m].pc = "getTelegramFileUrl"
    /\ handlers' = [handlers EXCEPT ![m] = [pc |-> "threw", d |-> 0]]
    /\ UNCHANGED <<build, env, filterRun, transformRun, toCome, posts, albumBuffer, heap,
                   timers, deliveries,
                   albumSendFailed, arrivals>>

\* The timeout callback without albumBuffer.delete(key): the flushed buffer stays in
\* the table.
TimerFire_keepsBuffer(t) ==
    /\ t \in DOMAIN timers
    /\ timers[t].remaining = 0
    /\ LET key == timers[t].key
           existing == heap[timers[t].existing]
           files == SubSeq(existing.items, 1, Min(MAX_FILES, Len(existing.items)))
           ts == Without(timers, t)
       IN /\ albumBuffer' = albumBuffer
          /\ timers' = ts
          /\ heap' = Reachable(heap, albumBuffer, ts)
          /\ deliveries' = Append(deliveries,
                 sendToDiscord("timer", t, key, OrElse(existing.caption, <<>>), files))
    /\ UNCHANGED <<build, env, filterRun, transformRun, toCome, posts, handlers,
                   albumSendFailed, arrivals>>

\* The timeout callback with albumBuffer.clear() for albumBuffer.delete(key).
TimerFire_clearsTable(t) ==
    /\ t \in DOMAIN timers
    /\ timers[t].remaining = 0
    /\ LET key == timers[t].key
           existing == heap[timers[t].existing]
           files == SubSeq(existing.items, 1, Min(MAX_FILES, Len(existing.items)))
           ts == Without(timers, t)
       IN /\ albumBuffer' = Empty
          /\ timers' = ts
          /\ heap' = Reachable(heap, Empty, ts)
          /\ deliveries' = Append(deliveries,
                 sendToDiscord("timer", t, key, OrElse(existing.caption, <<>>), files))
    /\ UNCHANGED <<build, env, filterRun, transformRun, toCome, posts, handlers,
                   albumSendFailed, arrivals>>

\* The timeout callback without slice(0, 10): every buffered item goes into the unit.
TimerFire_noSlice(t) ==
    /\ t \in DOMAIN timers
    /\ timers[t].remaining = 0
    /\ LET key == timers[t].key
           existing == heap[timers[t].existing]
           files == existing.items
           ab == Without(albumBuffer, key)
           ts == Without(timers, t)
       IN /\ albumBuffer' = ab
          /\ timers' = ts
          /\ heap' = Reachable(heap, ab, ts)
          /\ deliveries' = Append(deliveries,
                 sendToDiscord("timer", t, key, OrElse(existing.caption, <<>>), files))
    /\ UNCHANGED <<build, env, filterRun, transformRun, toCome, posts, handlers,
                   albumSendFailed, arrivals>>

\* The timeout callback that deletes the key and returns without sending the unit.
TimerFire_dropsUnit(t) ==
    /\ t \in DOMAIN timers
    /\ timers[t].remaining = 0
    /\ LET key == timers[t].key
           ab == Without(albumBuffer, key)
           ts == Without(timers, t)
       IN /\ albumBuffer' = ab
          /\ timers' = ts
          /\ heap' = Reachable(heap, ab, ts)
    /\ UNCHANGED <<build, env, filterRun, transformRun, toCome, posts, handlers, deliveries,
                   albumSendFailed, arrivals>>

\* The timeout callback of timer t runs to its await of sendToDiscord.
TimerFire(t) ==
    /\ t \in DOMAIN timers
    /\ timers[t].remaining = 0
    /\ LET key == timers[t].key
           existing == heap[timers[t].existing]
           files == SubSeq(existing.items, 1, Min(MAX_FILES, Len(existing.items)))
           ab == Without(albumBuffer, key)
           ts == Without(timers, t)
       IN /\ albumBuffer' = ab
          /\ timers' = ts
          /\ heap' = Reachable(heap, ab, ts)
          /\ deliveries' = Append(deliveries,
                 sendToDiscord("timer", t, key, OrElse(existing.caption, <<>>), files))
    /\ UNCHANGED <<build, env, filterRun, transformRun, toCome, posts, handlers,
                   albumSendFailed, arrivals>>

(***************************************************************************)
(* sendToDiscord after its start: one step per awaited network call.       *)
(***************************************************************************)
\* The call of sendToDiscord ends with an error: it reaches the awaiting handler,
\* or the try/catch of the timer callback, which logs it.
Reject(d) ==
    /\ deliveries' = [deliveries EXCEPT ![d].pc = "rejected"]
    /\ IF deliveries[d].caller = "handler"
       THEN /\ handlers' = SettleHandler(handlers, d, FALSE)
            /\ UNCHANGED albumSendFailed
       ELSE /\ albumSendFailed' = albumSendFailed \cup {d}
            /\ UNCHANGED handlers

\* fetch(url) answers ok: the bytes join the form; after the last file the webhook
\* request is issued with the form.
FetchOk(d) ==
    /\ d \in DOMAIN deliveries
    /\ deliveries[d].pc = "fetch"
    /\ LET dl == deliveries[d]
           f == dl.files[dl.i]
           part == [url |-> f.url,
                    filename |-> IF f.filename # "" THEN f.filename
                                 ELSE "media-" \o toString(dl.i - 1) \o ".jpg"]
           form == Append(dl.form, part)
       IN deliveries' = [deliveries EXCEPT ![d] =
              IF dl.i = Len(dl.files)
              THEN [dl EXCEPT !.form = form, !.pc = "post",
                              !.requests = Append(dl.requests,
                                  [content |-> dl.payload, files |-> form])]
              ELSE [dl EXCEPT !.form = form, !.i = dl.i + 1]]
    /\ UNCHANGED <<build, env, filterRun, transformRun, toCome, posts, handlers,
                   albumBuffer, heap, timers,
                   albumSendFailed, arrivals>>

\* A failed fetch that is skipped instead of thrown: the loop goes on without the file.
FetchFail_skipsFile(d) ==
    /\ d \in DOMAIN deliveries
    /\ deliveries[d].pc = "fetch"
    /\ LET dl == deliveries[d]
       IN deliveries' = [deliveries EXCEPT ![d] =
              IF dl.i = Len(dl.files)
              THEN [dl EXCEPT !.pc = "post",
                              !.requests = Append(dl.requests,
                                  [content |-> dl.payload, files |-> dl.form])]
              ELSE [dl EXCEPT !.i = dl.i + 1]]
    /\ UNCHANGED <<build, env, filterRun, transformRun, toCome, posts, handlers,
                   albumBuffer, heap, timers,
                   albumSendFailed, arrivals>>

\* fetch(url) answers with a non-success status: "Failed to fetch media".
FetchFail(d) ==
    /\ d \in DOMAIN deliveries
    /\ deliveries[d].pc = "fetch"
    /\ Reject(d)
    /\ UNCHANGED <<build, env, filterRun, transformRun, toCome, posts, albumBuffer, heap,
                   timers, arrivals>>

\* The webhook answers ok: sendToDiscord returns.
PostOk(d) ==
    /\ d \in DOMAIN deliveries
    /\ deliveries[d].pc = "post"
    /\ deliveries' = [deliveries EXCEPT ![d].pc = "resolved"]
    /\ handlers' = IF deliveries[d].caller = "handler"
                   THEN SettleHandler(handlers, d, TRUE) ELSE handlers
    /\ UNCHANGED <<build, env, filterRun, transformRun, toCome, posts, albumBuffer, heap,
                   timers,
                   albumSendFailed, arrivals>>

\* The webhook answers with a non-success status: "Discord webhook failed".
PostFail(d) ==
    /\ d \in DOMAIN deliveries
    /\ deliveries[d].pc = "post"
    /\ Reject(d)
    /\ UNCHANGED <<build, env, filterRun, transformRun, toCome, posts, albumBuffer, heap,
                   timers, arrivals>>

(***************************************************************************)
(* Time.  A due timeout runs before the clock moves on.                    *)
(***************************************************************************)
Tick ==
    /\ \A t \in DOMAIN timers : timers[t].remaining > 0
    /\ timers' = [t \in DOMAIN timers |->
                     [timers[t] EXCEPT !.remaining = Max(0, @ - TickMs)]]
    /\ arrivals' = IF toCome = 0 THEN arrivals
                   ELSE [k \in DOMAIN arrivals |->
                            [arrivals[k] EXCEPT !.since = Min(DEBOUNCE_MS, @ + TickMs)]]
    /\ UNCHANGED <<build, env, filterRun, transformRun, toCome, posts, handlers,
                   albumBuffer, heap, deliveries,
                   albumSendFailed>>

(***************************************************************************)
(* The pipeline.                                                           *)
(***************************************************************************)
Init ==
    /\ build \in Builds
    /\ env = PipelineEnv
    /\ filterRun = <<>>
    /\ transformRun = <<>>
    /\ toCome = MaxPosts
    /\ posts = <<>>
    /\ handlers = <<>>
    /\ albumBuffer = Empty
    /\ heap = Empty
    /\ timers = Empty
    /\ deliveries = <<>>
    /\ albumSendFailed = {}
    /\ arrivals = Empty

Next ==
    \/ \E shape \in PostShapes : Arrive(shape)
    \/ \E m \in 1..MaxPosts : ResolveOk(m)
    \/ \E m \in 1..MaxPosts : ResolveFail(m)
    \/ \E t \in 1..MaxPosts : TimerFire(t)
    \/ \E d \in 1..MaxPosts : FetchOk(d)
    \/ \E d \in 1..MaxPosts : FetchFail(d)
    \/ \E d \in 1..MaxPosts : PostOk(d)
    \/ \E d \in 1..MaxPosts : PostFail(d)
    \/ Tick

Spec == Init /\ [][Next]_vars

(***************************************************************************)
(* The Channel Filter on its own: any configuration, any chat.             *)
(***************************************************************************)
FilterEnvs ==
    [TELEGRAM_CHANNEL_ID : {"", "@news", "-1001"},
     TELEGRAM_CHANNEL_ID_TEST : {"", "@test", "-1002"}]

FilterChats ==
    {NoChat} \cup [present : {TRUE},
                   id : {<<>>, <<-1001>>, <<-1002>>, <<7>>},
                   username : {"", "news", "test", "other"}]

FilterCheck(chat) ==
    /\ filterRun' = <<[chat |-> chat, result |-> passesChannelFilter(build, env, chat)]>>
    /\ UNCHANGED <<build, env, transformRun, pipelineVars>>

InitFilter ==
    /\ build \in Builds
    /\ env \in FilterEnvs
    /\ filterRun = <<>>
    /\ transformRun = <<>>
    /\ toCome = 0
    /\ posts = <<>>
    /\ handlers = <<>>
    /\ albumBuffer = Empty
    /\ heap = Empty
    /\ timers = Empty
    /\ deliveries = <<>>
    /\ albumSendFailed = {}
    /\ arrivals = Empty

NextFilter == \E chat \in FilterChats : FilterCheck(chat)

SpecFilter == InitFilter /\ [][NextFilter]_vars

(***************************************************************************)
(* The Content Transformer on its own: any text of up to MaxParts parts.   *)
(***************************************************************************)
\* The pieces the input texts are made of: words, white space, the marker as a
\* handle, in plain form and as a deep link, a malformed link token, a "DM (arrow)"
\* call to action, and the canonical footer itself.
TextParts ==
    { <<"hi">>,
      <<" ">>,
      <<"\n">>,
      <<"@", "splitthepicks">>,
      <<"SplitThePicks">>,
      <<"https://", "t.me/", "splitthepicks">>,
      <<"https://", "@", "VEGASKILLER">>,
      <<"DM", " ", "(arrow)", " ", "@", "oldhandle">>,
      footer }

RECURSIVE TextsUpTo(_)
TextsUpTo(n) ==
    IF n = 0 THEN {<<>>}
    ELSE LET shorter == TextsUpTo(n - 1)
         IN shorter \cup {t \o p : t \in shorter, p \in TextParts}

Texts == TextsUpTo(MaxParts)

\* One call transformContent(raw), and transformContent of its result.
TransformCheck(raw) ==
    /\ transformRun = <<>>
    /\ LET out == transformContent(build, raw)
       IN transformRun' = <<[raw |-> raw, out |-> out,
                             again |-> transformContent(build, out)]>>
    /\ UNCHANGED <<build, env, filterRun, pipelineVars>>

InitTransform ==
    /\ build \in Builds
    /\ env = PipelineEnv
    /\ filterRun = <<>>
    /\ transformRun = <<>>
    /\ toCome = 0
    /\ posts = <<>>
    /\ handlers = <<>>
    /\ albumBuffer = Empty
    /\ heap = Empty
    /\ timers = Empty
    /\ deliveries = <<>>
    /\ albumSendFailed = {}
    /\ arrivals = Empty

NextTransform == \E raw \in Texts : TransformCheck(raw)

SpecTransform == InitTransform /\ [][NextTransform]_vars

\* Node serves its timers: the clock moves on and a due timeout runs.  Nothing is
\* assumed of the network: a call to Telegram or Discord may never complete.
FairSpec ==
    /\ Spec
    /\ WF_vars(Tick)
    /\ \A t \in 1..MaxPosts : WF_vars(TimerFire(t))

(***************************************************************************)
(* The Album Aggregator on one album, up to and past the cap of MAX_FILES. *)
(* The run starts either with nothing buffered, or in the state the        *)
(* program is in when the first Backlog photos of the album have arrived   *)
(* and been resolved one after the other, the last one just now: they are  *)
(* in the buffer and its timeout has its whole delay to run.               *)
(***************************************************************************)
\* The photos of the album already buffered when the run starts.
Backlog == MAX_FILES - 1

AlbumShapes ==
    { Shape(AllowedChat, "G1", "photo", "", <<>>),
      Shape(AllowedChat, "G1", "photo", "", <<"a">>),
      Shape(AllowedChat, "G1", "video", "", <<"b">>) }

\* The i-th photo of the backlog: no caption.
BacklogPost(i) == Shape(AllowedChat, "G1", "photo", "", <<>>) @@ [message_id |-> i]

\* The message ids of a run of the album.
AlbumMsgs == 1..(Backlog + MaxPosts)

InitAlbum ==
    /\ build \in Builds
    /\ env = PipelineEnv
    /\ filterRun = <<>>
    /\ transformRun = <<>>
    /\ toCome = MaxPosts
    /\ deliveries = <<>>
    /\ albumSendFailed = {}
    /\ \E n \in {0, Backlog} :
           LET key == albumKey(BacklogPost(1))
               items == [i \in 1..n |-> [url |-> fileUrlOf(BacklogPost(i)),
                                         filename |-> filenameOf(BacklogPost(i))]]
           IN /\ posts = [i \in 1..n |-> BacklogPost(i)]
              /\ handlers = [i \in 1..n |-> [pc |-> "returned", d |-> 0]]
              /\ IF n = 0
                 THEN /\ albumBuffer = Empty
                      /\ heap = Empty
                      /\ timers = Empty
                      /\ arrivals = Empty
                 ELSE /\ albumBuffer = With(Empty, key, 1)
                      /\ heap = With(Empty, 1, [caption |-> <<>>, items |-> items,
                                                timer |-> n])
                      /\ timers = With(Empty, n, [key |-> key, existing |-> 1,
                                                  remaining |-> DEBOUNCE_MS])
                      /\ arrivals = With(Empty, key, [since |-> 0, close |-> TRUE])

\* The steps of the handlers, of the timeouts and of the clock.  The units handed to
\* sendToDiscord stay in flight: the steps of a delivery are those of Spec, and
\* they touch neither the table, nor a buffer, nor a unit already handed over.
NextAlbum ==
    \/ \E shape \in AlbumShapes : Arrive(shape)
    \/ \E m \in AlbumMsgs : ResolveOk(m)
    \/ \E m \in AlbumMsgs : ResolveFail(m)
    \/ \E t \in AlbumMsgs : TimerFire(t)
    \/ Tick

SpecAlbum == InitAlbum /\ [][NextAlbum]_vars

(***************************************************************************)
(* Vocabulary of the properties.                                           *)
(***************************************************************************)
\* The posts that are album items: media posts with a media_group_id that passed the filter.
AlbumPosts(k) ==
    {m \in DOMAIN posts :
        /\ handlers[m].pc # "filtered"
        /\ posts[m].kind # "text"
        /\ posts[m].media_group_id # ""
        /\ albumKey(posts[m]) = k}

\* The flushes of key k: the units the timer callbacks handed to sendToDiscord.
Flushes(k) ==
    {d \in DOMAIN deliveries : deliveries[d].caller = "timer" /\ deliveries[d].key = k}

\* The post a file of a unit came from.
MsgOfUrl(url) == CHOOSE m \in DOMAIN posts : fileUrlOf(posts[m]) = url

\* The handler of m ended with the error of getTelegramFileUrl.
ResolutionFailed(m) == handlers[m].pc = "threw" /\ handlers[m].d = 0

\* Nothing of key k is under way: no handler awaits its locator, no buffer waits.
Settled(k) ==
    /\ k \notin DOMAIN albumBuffer
    /\ \A m \in AlbumPosts(k) : handlers[m].pc # "getTelegramFileUrl"

(***************************************************************************)
(* C1.  An album whose items arrive with gaps shorter than the debounce    *)
(* window (and whose locators all resolve) is flushed exactly once,        *)
(* however long the resolution of each locator takes: never twice, and     *)
(* once when nothing of it is under way any more.                          *)
(***************************************************************************)
C1_ExactlyOneFlush ==
    \A k \in DOMAIN arrivals :
        (arrivals[k].close /\ \A m \in AlbumPosts(k) : ~ResolutionFailed(m))
            => /\ Cardinality(Flushes(k)) <= 1
               /\ Settled(k) => Cardinality(Flushes(k)) = 1

(***************************************************************************)
(* C2.  The files of a flushed album unit are in the order in which their  *)
(* posts arrived (message_id order), whatever the order in which the       *)
(* handlers' getTelegramFileUrl calls return.                              *)
(***************************************************************************)
C2_FilesInArrivalOrder ==
    \A d \in DOMAIN deliveries :
        deliveries[d].caller = "timer"
            => \A i, j \in 1..Len(deliveries[d].files) :
                   i < j => MsgOfUrl(deliveries[d].files[i].url)
                                < MsgOfUrl(deliveries[d].files[j].url)

(***************************************************************************)
(* C3.  No channel_post handler ends with an error: every failure of the   *)
(* locator resolution, of a media fetch or of the webhook is caught        *)
(* inside, for immediate sends as for album flushes.                       *)
(***************************************************************************)
C3_HandlerNeverThrows ==
    \A m \in DOMAIN handlers : handlers[m].pc # "threw"

\* The album keys of the inputs.
AlbumKeys ==
    {albumKey(sh) : sh \in {x \in PostShapes : x.kind # "text" /\ x.media_group_id # ""}}

\* The URLs of a sequence of files.
Urls(files) == {files[i].url : i \in 1..Len(files)}

\* The first MAX_FILES entries of a sequence.
FirstFiles(items) == SubSeq(items, 1, Min(MAX_FILES, Len(items)))

\* This step is a timer callback handing a unit to sendToDiscord.
IsFlushStep ==
    /\ Len(deliveries') = Len(deliveries) + 1
    /\ deliveries'[Len(deliveries')].caller = "timer"

(***************************************************************************)
(* C4.  Per album key there is at most one buffer object alive and at most *)
(* one timeout pending; a pending timeout is the one its buffer scheduled  *)
(* last and its buffer is the one in the table, so a superseded timeout    *)
(* is not pending and cannot fire.                                         *)
(***************************************************************************)
C4_OneBufferOneTimerPerKey ==
    /\ \A t1, t2 \in DOMAIN timers : timers[t1].key = timers[t2].key => t1 = t2
    /\ \A t \in DOMAIN timers :
           /\ timers[t].key \in DOMAIN albumBuffer
           /\ albumBuffer[timers[t].key] = timers[t].existing
           /\ heap[timers[t].existing].timer = t
    /\ \A o \in DOMAIN heap :
           Cardinality({k \in DOMAIN albumBuffer : albumBuffer[k] = o}) = 1

\* A second item was appended to a buffer: its first timeout was cancelled, one is pending.
C4_Witness ==
    \E k \in DOMAIN albumBuffer :
        /\ Len(heap[albumBuffer[k]].items) >= 2
        /\ \E t \in DOMAIN timers : timers[t].key = k

(***************************************************************************)
(* C5.  The step in which a timeout fires removes its key from the table   *)
(* and fixes the unit (the first MAX_FILES items of the buffer, as they    *)
(* are in that step); a unit handed over never changes; an item buffered   *)
(* later is in a fresh buffer and goes out in a flush of its own: no item  *)
(* is in two units, and no buffered item is in a unit already handed over. *)
(***************************************************************************)
C5_Units ==
    /\ \A d1, d2 \in DOMAIN deliveries :
           d1 # d2 => Urls(deliveries[d1].files) \cap Urls(deliveries[d2].files) = {}
    /\ \A o \in DOMAIN heap : \A d \in DOMAIN deliveries :
           Urls(heap[o].items) \cap Urls(deliveries[d].files) = {}

C5_Step ==
    /\ \A d \in DOMAIN deliveries :
           /\ d \in DOMAIN deliveries'
           /\ deliveries'[d].files = deliveries[d].files
           /\ deliveries'[d].content = deliveries[d].content
    /\ IsFlushStep =>
           LET unit == deliveries'[Len(deliveries')]
           IN /\ unit.key \in DOMAIN albumBuffer
              /\ unit.key \notin DOMAIN albumBuffer'
              /\ unit.files = FirstFiles(heap[albumBuffer[unit.key]].items)

C5_FlushFixesUnit == []C5_Units /\ [][C5_Step]_vars

\* A key was flushed a second time while the delivery of its first flush is in flight.
C5_Witness ==
    \E d1, d2 \in DOMAIN deliveries :
        /\ d1 < d2
        /\ deliveries[d1].caller = "timer"
        /\ deliveries[d2].caller = "timer"
        /\ deliveries[d1].key = deliveries[d2].key
        /\ deliveries[d1].pc \in {"fetch", "post"}

(***************************************************************************)
(* C6.  A step of a delivery (a fetch or the webhook answering, well or    *)
(* badly) leaves the table, the buffers and the timeouts as they are; the  *)
(* flush of a key leaves the buffer and the timeout of every other key as  *)
(* they are; and a buffered key is flushed in the end, whether or not the  *)
(* network calls of other units ever complete.                             *)
(***************************************************************************)
C6_Step ==
    /\ (\E d \in DOMAIN deliveries : deliveries'[d] # deliveries[d])
           => UNCHANGED <<albumBuffer, heap, timers>>
    /\ IsFlushStep =>
           \A k \in DOMAIN albumBuffer :
               k # deliveries'[Len(deliveries')].key
                   => /\ k \in DOMAIN albumBuffer'
                      /\ albumBuffer'[k] = albumBuffer[k]
                      /\ heap'[albumBuffer[k]] = heap[albumBuffer[k]]
                      /\ \A t \in DOMAIN timers :
                             timers[t].key = k
                                 => t \in DOMAIN timers' /\ timers'[t] = timers[t]

C6_OtherKeysUnaffected ==
    /\ [][C6_Step]_vars
    /\ \A k \in AlbumKeys :
           (k \in DOMAIN albumBuffer) ~> (k \notin DOMAIN albumBuffer /\ Flushes(k) # {})

\* The delivery of one key's flush has failed while another key is buffered.
C6_Witness ==
    \E d \in albumSendFailed : \E k \in DOMAIN albumBuffer : k # deliveries[d].key

\* No allowed channel identifier is set.
NoAllowList(e) == e.TELEGRAM_CHANNEL_ID = "" /\ e.TELEGRAM_CHANNEL_ID_TEST = ""

\* The identifiers the running build reads as its allow-list.
ConfiguredIds(b, e) ==
    (IF b = "index" THEN {e.TELEGRAM_CHANNEL_ID, e.TELEGRAM_CHANNEL_ID_TEST}
     ELSE {e.TELEGRAM_CHANNEL_ID}) \ {""}

(***************************************************************************)
(* C7.  With no allowed channel identifier set, passesChannelFilter        *)
(* accepts every inbound channel post (a post that carries its chat, with  *)
(* the chat's id).                                                         *)
(***************************************************************************)
C7_AcceptsAllWithoutAllowList ==
    \A i \in DOMAIN filterRun :
        (/\ NoAllowList(env)
         /\ filterRun[i].chat.present
         /\ filterRun[i].chat.id # <<>>) => filterRun[i].result

(***************************************************************************)
(* C8.  With an allow-list set, passesChannelFilter accepts a post exactly *)
(* when its chat is present and the chat's id written as a string, or its  *)
(* "@" handle, is one of the configured identifiers; an absent chat is     *)
(* rejected.                                                               *)
(***************************************************************************)
C8_AllowListDecides ==
    \A i \in DOMAIN filterRun :
        LET chat == filterRun[i].chat
            ids == ConfiguredIds(build, env)
        IN ids # {} =>
               (filterRun[i].result <=>
                    /\ chat.present
                    /\ \/ chat.id # <<>> /\ toString(chat.id[1]) \in ids
                       \/ chat.username # "" /\ ("@" \o chat.username) \in ids)

\* With an allow-list set, a channel without a username was accepted by its numeric id.
C8_Witness ==
    \E i \in DOMAIN filterRun :
        /\ ConfiguredIds(build, env) # {}
        /\ filterRun[i].result
        /\ filterRun[i].chat.username = ""

(***************************************************************************)
(* C9.  When the locator of a media item cannot be resolved, no webhook    *)
(* request is issued for the unit of that item: the single-media unit of   *)
(* its post, or the unit of its album (an album whose items all arrived    *)
(* within the debounce window of each other).                              *)
(***************************************************************************)
C9_ResolutionErrorAbortsUnit ==
    \A m \in DOMAIN handlers :
        ResolutionFailed(m) =>
            \A d \in DOMAIN deliveries :
                (\/ deliveries[d].caller = "handler" /\ deliveries[d].owner = m
                 \/ /\ posts[m].media_group_id # ""
                    /\ deliveries[d].caller = "timer"
                    /\ deliveries[d].key = albumKey(posts[m])
                    /\ arrivals[albumKey(posts[m])].close)
                    => deliveries[d].requests = <<>>

(***************************************************************************)
(* C10.  A call of sendToDiscord issues at most one webhook request; the   *)
(* request is issued only when every file of the unit has been fetched,    *)
(* and carries all of them in order; after a failed fetch there is no      *)
(* request; and no unit is handed to sendToDiscord a second time.          *)
(***************************************************************************)
C10_OneRequestAllFiles ==
    /\ \A d \in DOMAIN deliveries :
           LET dl == deliveries[d]
           IN /\ Len(dl.requests) <= 1
              /\ \A i \in 1..Len(dl.form) : dl.form[i].url = dl.files[i].url
              /\ dl.requests # <<>> =>
                     /\ dl.pc \in {"post", "resolved", "rejected"}
                     /\ Len(dl.form) = Len(dl.files)
                     /\ dl.requests[1].files = dl.form
                     /\ dl.requests[1].content = dl.payload
              /\ dl.requests = <<>> => dl.pc \in {"fetch", "rejected"}
              /\ (dl.pc = "rejected" /\ Len(dl.form) < Len(dl.files)) => dl.requests = <<>>
    /\ \A d1, d2 \in DOMAIN deliveries :
           (/\ deliveries[d1].caller = deliveries[d2].caller
            /\ deliveries[d1].owner = deliveries[d2].owner) => d1 = d2

\* The one request of a unit of two files has been issued, with both.
C10_Witness ==
    \E d \in DOMAIN deliveries :
        /\ Len(deliveries[d].files) >= 2
        /\ Len(deliveries[d].requests) = 1
        /\ Len(deliveries[d].requests[1].files) = Len(deliveries[d].files)

\* The items of album k that carry words: their caption is not empty.
Captioned(k) == {m \in AlbumPosts(k) : Truthy(normalizeCaption(posts[m]))}

\* The unit d holds every item of its album that has arrived, and nothing else.
HoldsWholeAlbum(d) ==
    Urls(deliveries[d].files)
        = {fileUrlOf(posts[m]) : m \in AlbumPosts(deliveries[d].key)}

(***************************************************************************)
(* C11.  The content of a flushed album unit is the transformed caption of *)
(* the first item in arrival order (lowest message_id) that carries a      *)
(* non-empty caption, and is empty only when no item carries one.  Stated  *)
(* of the units that hold their whole album, so that the split of an album *)
(* over two flushes (C1) is not what is measured.                          *)
(***************************************************************************)
C11_FirstCaptionInArrivalOrder ==
    \A d \in DOMAIN deliveries :
        (deliveries[d].caller = "timer" /\ HoldsWholeAlbum(d)) =>
            LET c == Captioned(deliveries[d].key)
            IN deliveries[d].content =
                   IF c = {} THEN <<>>
                   ELSE captionOf(posts[CHOOSE m \in c : \A x \in c : m <= x])

\* The album items whose handler appended them to a buffer.
Appended(k) == {m \in AlbumPosts(k) : handlers[m].pc = "returned"}

\* The units and the live buffers that hold the file of post m.
UnitsOf(m) == {d \in DOMAIN deliveries : fileUrlOf(posts[m]) \in Urls(deliveries[d].files)}
BuffersOf(m) == {o \in DOMAIN heap : fileUrlOf(posts[m]) \in Urls(heap[o].items)}

(***************************************************************************)
(* C12.  No unit handed to sendToDiscord has more than MAX_FILES (10)      *)
(* files.  The unit of an album flush is the buffer's first min(n, 10)     *)
(* items, n the number of items buffered when the timeout fires, in the    *)
(* buffer's order; the items after the tenth are in no unit.               *)
(***************************************************************************)
C12_Cap ==
    \A d \in DOMAIN deliveries : Len(deliveries[d].files) <= MAX_FILES

C12_Step ==
    IsFlushStep =>
        LET unit == deliveries'[Len(deliveries')]
            items == heap[albumBuffer[unit.key]].items
            n == Len(items)
        IN /\ Len(unit.files) = (IF n <= MAX_FILES THEN n ELSE MAX_FILES)
           /\ \A i \in 1..Len(unit.files) : unit.files[i] = items[i]
           /\ \A i \in (MAX_FILES + 1)..n :
                  \A d \in DOMAIN deliveries' : items[i].url \notin Urls(deliveries'[d].files)

C12_AtMostTenFiles == []C12_Cap /\ [][C12_Step]_vars

\* A buffer of more than MAX_FILES items was flushed: its unit has MAX_FILES files and
\* an item that had been appended is in no unit and in no buffer.
C12_Witness ==
    \E d \in DOMAIN deliveries :
        /\ deliveries[d].caller = "timer"
        /\ Len(deliveries[d].files) = MAX_FILES
        /\ \E m \in Appended(deliveries[d].key) : UnitsOf(m) = {} /\ BuffersOf(m) = {}

FirstLineBlank(raw) == ~Truthy(Trim(SplitLines(StripMalformed(raw))[1]))

HasMarker(t) ==
    \E i \in 1..Len(t) :
        /\ Lower(t[i]) = "splitthepicks"
        /\ i = 1 \/ ~LastIsWord(t[i - 1])
        /\ i = Len(t) \/ ~FirstIsWord(t[i + 1])

\* The text holds a malformed link token: scheme://@token.
HasMalformed(t) ==
    \E i \in 1..(Len(t) - 2) :
        /\ Lower(t[i]) \in {"https://", "http://"}
        /\ t[i + 1] = "@"
        /\ ~IsSpace(t[i + 2])

\* The number of line breaks of the text.
LineBreaks(t) == Cardinality({i \in 1..Len(t) : t[i] = "\n"})

FooterCount(t) ==
    Cardinality({i \in 1..(Len(t) - Len(footer) + 1) :
                    SubSeq(t, i, i + Len(footer) - 1) = footer})

\* The call-to-action lines among the lines ls.
CtaLines(ls) == {i \in 1..Len(ls) : IsCtaLine(ls[i])}

\* The lines ls with their first call-to-action line replaced by the footer and their
\* other call-to-action lines deleted; without one, with the footer appended as a
\* block of its own after a blank line.
RECURSIVE FirstReplacedRestDeleted(_, _)
FirstReplacedRestDeleted(ls, done) ==
    IF ls = <<>> THEN <<>>
    ELSE IF ~IsCtaLine(Head(ls))
         THEN <<Head(ls)>> \o FirstReplacedRestDeleted(Tail(ls), done)
         ELSE (IF done THEN <<>> ELSE <<footer>>)
                  \o FirstReplacedRestDeleted(Tail(ls), TRUE)

WithOneFooter(ls) ==
    IF CtaLines(ls) # {} THEN FirstReplacedRestDeleted(ls, FALSE)
    ELSE (IF ls[Len(ls)] = <<>> THEN ls ELSE ls \o << <<>> >>) \o <<footer>>

FlushesOfBuffer(o) ==
    {d \in DOMAIN deliveries :
        /\ deliveries[d].caller = "timer"
        /\ deliveries[d].files # <<>>
        /\ deliveries[d].files[1].url = fileUrlOf(posts[o])}

(***************************************************************************)
(* C16.  A buffer leaves the table once, by its own flush.  A buffer in    *)
(* the table has not been flushed; no buffer is flushed twice; the step    *)
(* that takes a buffer out of the table is the timeout callback handing    *)
(* that buffer's items to sendToDiscord; and, the clock and the timeouts   *)
(* being served (the posts of a run are finitely many), every buffer has   *)
(* left the table in the end, by that step, and the table stays empty.     *)
(***************************************************************************)
C16_Once ==
    \A o \in DOMAIN posts :
        /\ Cardinality(FlushesOfBuffer(o)) <= 1
        /\ o \in DOMAIN heap => FlushesOfBuffer(o) = {}
        /\ FlushesOfBuffer(o) # {} => \A k \in DOMAIN albumBuffer : albumBuffer[k] # o

C16_Step ==
    \A k \in DOMAIN albumBuffer :
        (k \notin DOMAIN albumBuffer' \/ albumBuffer'[k] # albumBuffer[k]) =>
            /\ IsFlushStep
            /\ k \notin DOMAIN albumBuffer'
            /\ albumBuffer[k] \notin DOMAIN heap'
            /\ LET unit == deliveries'[Len(deliveries')]
               IN /\ unit.key = k
                  /\ unit.files # <<>>
                  /\ unit.files[1] = heap[albumBuffer[k]].items[1]
                  /\ unit.files[1].url = fileUrlOf(posts[albumBuffer[k]])

C16_FlushedExactlyOnce ==
    /\ []C16_Once
    /\ [][C16_Step]_vars
    /\ <>[](albumBuffer = Empty /\ heap = Empty)

\* Two buffers of one key have been flushed, one after the other.
C16_Witness ==
    \E o1, o2 \in DOMAIN posts :
        /\ o1 # o2
        /\ albumKey(posts[o1]) = albumKey(posts[o2])
        /\ FlushesOfBuffer(o1) # {}
        /\ FlushesOfBuffer(o2) # {}

\* The posts that passed the filter and carry no media_group_id.
SinglePosts ==
    {m \in DOMAIN posts : handlers[m].pc # "filtered" /\ posts[m].media_group_id = ""}

\* The units the handler of post m handed to sendToDiscord itself.
HandlerUnits(m) ==
    {d \in DOMAIN deliveries : deliveries[d].caller = "handler" /\ deliveries[d].owner = m}

(***************************************************************************)
(* C17.  A post without media_group_id goes past the album buffer.  No     *)
(* buffer holds its file and no timeout is set for it; its handler is      *)
(* never parked: a text post is handed to sendToDiscord in the step in     *)
(* which it arrives, a media post in the step in which its file URL is     *)
(* resolved, as one unit of no file (text) or of exactly its one file      *)
(* (photo, video, document); and no step of its handler changes the table, *)
(* a buffer or a timeout.                                                  *)
(***************************************************************************)
C17_Units ==
    \A m \in SinglePosts :
        /\ BuffersOf(m) = {}
        /\ m \notin DOMAIN timers
        /\ handlers[m].pc = "getTelegramFileUrl" => posts[m].kind # "text"
        /\ ~(handlers[m].pc = "returned" /\ handlers[m].d = 0)
        /\ handlers[m].pc \in {"sendToDiscord", "returned"} =>
               /\ HandlerUnits(m) = {handlers[m].d}
               /\ LET files == deliveries[handlers[m].d].files
                  IN IF posts[m].kind = "text" THEN files = <<>>
                     ELSE /\ Len(files) = 1
                          /\ files[1].url = fileUrlOf(posts[m])
                          /\ files[1].filename = filenameOf(posts[m])

C17_Step ==
    \A m \in DOMAIN posts' :
        (/\ posts'[m].media_group_id = ""
         /\ m \in DOMAIN handlers => handlers'[m] # handlers[m])
            => UNCHANGED <<albumBuffer, heap, timers>>

C17_SinglePostBypassesBuffer == []C17_Units /\ [][C17_Step]_vars

\* A single media post was handed over as a unit of one file while an album was
\* buffered, its timeout pending.
C17_Witness ==
    \E m \in SinglePosts :
        /\ posts[m].kind # "text"
        /\ handlers[m].pc = "sendToDiscord"
        /\ Len(deliveries[handlers[m].d].files) = 1
        /\ albumBuffer # Empty
        /\ timers # Empty

\* The album items: the media posts with a media_group_id that passed the filter.
AlbumItems ==
    {m \in DOMAIN posts :
        /\ handlers[m].pc # "filtered"
        /\ posts[m].kind # "text"
        /\ posts[m].media_group_id # ""}

\* The places at which the file of post m stands: the i-th item of a live buffer o,
\* or the i-th file of a unit d handed to sendToDiscord.
Places(m) ==
    UNION {{<<"buffer", o, i>> :
               i \in {j \in 1..Len(heap[o].items) :
                         heap[o].items[j].url = fileUrlOf(posts[m])}} : o \in DOMAIN heap}
    \cup
    UNION {{<<"unit", d, i>> :
               i \in {j \in 1..Len(deliveries[d].files) :
                         deliveries[d].files[j].url = fileUrlOf(posts[m])}} :
           d \in DOMAIN deliveries}

(***************************************************************************)
(* C18.  The buffer table loses and doubles no album item, however the     *)
(* handlers and the timeout callbacks interleave.  An item stands nowhere  *)
(* before its file URL is resolved, and never in two places.  The step     *)
(* that resolves it appends it, once, to the buffer the table holds for    *)
(* its key.  The step that flushes a buffer puts each of its first         *)
(* MAX_FILES items into the new unit, at its own position, and the items   *)
(* after them nowhere.  An item in a unit stays there, and only there; an  *)
(* item that was dropped stays dropped, and its album has a unit of        *)
(* MAX_FILES files.                                                        *)
(***************************************************************************)
C18_Placed ==
    \A m \in AlbumItems :
        IF handlers[m].pc # "returned" THEN Places(m) = {}
        ELSE /\ Cardinality(Places(m)) <= 1
             /\ Places(m) = {} =>
                    \E d \in Flushes(albumKey(posts[m])) :
                        Len(deliveries[d].files) = MAX_FILES

C18_Step ==
    /\ \A m \in AlbumItems :
           /\ (handlers[m].pc = "getTelegramFileUrl" /\ handlers'[m].pc = "returned") =>
                  LET key == albumKey(posts[m])
                  IN /\ key \in DOMAIN albumBuffer'
                     /\ Places(m)' = {<<"buffer", albumBuffer'[key],
                                        Len(heap'[albumBuffer'[key]].items)>>}
           /\ (handlers[m].pc = "returned" /\ BuffersOf(m) = {}) =>
                  Places(m)' = Places(m)
    /\ \A o \in DOMAIN heap :
           IF o \in DOMAIN heap'
           THEN \A i \in 1..Len(heap[o].items) : heap'[o].items[i] = heap[o].items[i]
           ELSE /\ IsFlushStep
                /\ \A i \in 1..Len(heap[o].items) : \A m \in AlbumItems :
                       heap[o].items[i].url = fileUrlOf(posts[m]) =>
                           Places(m)' =
                               IF i <= MAX_FILES THEN {<<"unit", Len(deliveries'), i>>}
                               ELSE {}

C18_NoItemLostOrDuplicated == []C18_Placed /\ [][C18_Step]_vars

\* Two items of one album stand in two units, the later arrival in the earlier unit:
\* its handler was resumed first and a timeout fired between the two.
C18_Witness ==
    \E m1, m2 \in AlbumItems : \E d1, d2 \in DOMAIN deliveries :
        /\ m1 < m2
        /\ albumKey(posts[m1]) = albumKey(posts[m2])
        /\ d2 < d1
        /\ UnitsOf(m1) = {d1}
        /\ UnitsOf(m2) = {d2}

\* The timeouts pending for key k.
TimersOf(k) == {t \in DOMAIN timers : timers[t].key = k}

(***************************************************************************)
(* C19.  A key is in the table exactly when one timeout is pending for it  *)
(* (never two, never a timeout for a key that is not in the table); every  *)
(* buffer in the table holds an item at least; so when no timeout is       *)
(* pending the table is empty.                                             *)
(***************************************************************************)
C19_InTableIffTimerPending ==
    /\ \A k \in DOMAIN albumBuffer :
           /\ Cardinality(TimersOf(k)) = 1
           /\ albumBuffer[k] \in DOMAIN heap
           /\ heap[albumBuffer[k]].items # <<>>
    /\ \A t \in DOMAIN timers : timers[t].key \in DOMAIN albumBuffer
    /\ timers = Empty => albumBuffer = Empty

\* Two keys are in the table, each with its own pending timeout.
C19_Witness ==
    /\ Cardinality(DOMAIN albumBuffer) = 2
    /\ \A k \in DOMAIN albumBuffer : Cardinality(TimersOf(k)) = 1

====
